---- MODULE Spec2Model ----
(***************************************************************************)
(* Risk-overlay synchronization of the SF crime mapper front end           *)
(* (frontend/src/App.jsx and its api module).                              *)
(*                                                                         *)
(* JavaScript values are tagged tuples: <<"undefined">>, <<"null">>,       *)
(* <<"nan">>, <<"inf">>, <<"num", n>>, <<"str", s>>.  <<"num", n>> is the   *)
(* integer n; <<"frac", h>> is the number h / 100 (a spike probability).    *)
(***************************************************************************)
EXTENDS Integers, Sequences, FiniteSets, TLC

\* ---------------------------------------------------------------- bounds
MaxEpoch == 3
MaxFeatures == 2
MaxPreds == 2

\* ------------------------------------------------------- JavaScript values
Undefined == <<"undefined">>
Null == <<"null">>
NaN == <<"nan">>
Infinity == <<"inf">>
Num(n) == <<"num", n>>
Str(s) == <<"str", s>>
Arr(s) == <<"array", s>>
Frac(h) == <<"frac", h>>

IsNum(v) == v[1] = "num"
IsStr(v) == v[1] = "str"
IsArr(v) == v[1] = "array"
IsFrac(v) == v[1] = "frac"
IsNullish(v) == v[1] \in {"undefined", "null"}

\* decimal rendering of an integer
Digits == <<"0", "1", "2", "3", "4", "5", "6", "7", "8", "9">>

RECURSIVE DecimalString(_)
DecimalString(n) ==
  IF n < 0 THEN "-" \o DecimalString(0 - n)
  ELSE IF n < 10 THEN Digits[n + 1]
  ELSE DecimalString(n \div 10) \o Digits[(n % 10) + 1]

\* numeric strings that Number() parses to a finite value
ParseNumeric(s) ==
  CASE s = "" -> Num(0)
    [] s = "62" -> Num(62)
    [] OTHER -> NaN

\* String(v)
ToStringJS(v) ==
  CASE IsStr(v) -> v[2]
    [] IsNum(v) -> DecimalString(v[2])
    [] v = Undefined -> "undefined"
    [] v = Null -> "null"
    [] v = NaN -> "NaN"
    [] OTHER -> "Infinity"

\* Number(v)
ToNumberJS(v) ==
  CASE IsNum(v) -> v
    [] IsFrac(v) -> v
    [] IsStr(v) -> ParseNumeric(v[2])
    [] v = Null -> Num(0)
    [] v = Infinity -> Infinity
    [] OTHER -> NaN

\* Number.isFinite(v)
IsFiniteJS(v) == IsNum(v) \/ IsFrac(v)

\* truthiness of a value used as the left operand of ||
Truthy(v) ==
  CASE IsStr(v) -> v[2] # ""
    [] IsNum(v) -> v[2] # 0
    [] IsFrac(v) -> v[2] # 0
    [] OTHER -> FALSE

\* a || b
OrJS(a, b) == IF Truthy(a) THEN a ELSE b

\* variant: || in place of ??
CoalesceFalsy(a, b) == IF Truthy(a) THEN a ELSE b

\* a ?? b
CoalesceJS(a, b) == IF IsNullish(a) THEN b ELSE a

\* v.toFixed(digits) with digits 1 or 2
ToFixed(v, digits) ==
  LET zeros == IF digits = 1 THEN "0" ELSE "00"
  IN CASE IsNum(v) -> DecimalString(v[2]) \o "." \o zeros
       [] IsFrac(v) /\ digits = 2 ->
            DecimalString(v[2] \div 100) \o "." \o
              Digits[((v[2] \div 10) % 10) + 1] \o Digits[(v[2] % 10) + 1]
       [] IsFrac(v) /\ digits = 1 ->
            LET tenths == (v[2] + 5) \div 10
            IN DecimalString(tenths \div 10) \o "." \o Digits[(tenths % 10) + 1]
       [] v = Infinity -> "Infinity"
       [] OTHER -> "NaN"

\* v * 100 for a number v
TimesHundred(v) ==
  CASE IsFrac(v) -> Num(v[2])
    [] IsNum(v) -> Num(100 * v[2])
    [] v = Infinity -> Infinity
    [] OTHER -> NaN

\* ------------------------------------------------------------- UI values
Modes == {"forecast", "spike"}
Dates == {"2026-11-06", "2026-11-07"}
Crimes == {"all", "violent"}
Tods == {"all", "night"}

InitialMode == "forecast"
InitialDate == "2026-11-06"
InitialCrime == "all"
InitialTod == "all"

\* --------------------------------------------------- region collections
\* a feature with a name (and an id that the name outranks) and one with
\* neither name nor id, keyed by its position
NamedFeature == [neighborhood |-> Str("Mission"), name |-> Str("Mission District"), id |-> Num(1)]
BareFeature == [neighborhood |-> Str(""), name |-> Undefined, id |-> Undefined]

FeaturePool == {NamedFeature, BareFeature}

SeqsUpTo(S, n) == UNION { [1..k -> S] : k \in 0..n }

FeatureCollections == SeqsUpTo(FeaturePool, MaxFeatures) \ {<<>>}

\* the collection of the synchronization runs: keys "Mission" and "1"
SyncCollections == {<<NamedFeature, BareFeature>>}

\* the collections of the hover runs: two named regions; a named and a nameless
\* one; two regions of the same name
SoMaFeature == [neighborhood |-> Str("SoMa"), name |-> Undefined, id |-> Undefined]

HoverCollections ==
  {<<NamedFeature, SoMaFeature>>, <<NamedFeature, BareFeature>>, <<NamedFeature, NamedFeature>>}

\* the collections of the index runs: every combination of a missing, empty or
\* non-empty neighborhood and name with a missing, zero or non-zero id
IndexFeaturePool ==
  [neighborhood : {Str("Mission"), Str(""), Undefined},
   name : {Str("Mission District"), Str(""), Undefined},
   id : {Num(7), Num(0), Undefined}]

\* ten regions without a name, the one at position 7 with id 7
TenRegions ==
  [i \in 1..10 |-> [neighborhood |-> Undefined, name |-> Undefined,
                    id |-> IF i = 8 THEN Num(7) ELSE Undefined]]

IndexCollections == (SeqsUpTo(IndexFeaturePool, MaxFeatures) \ {<<>>}) \cup {TenRegions}

\* f.properties?.neighborhood || f.properties?.name
FeatureName(f) == OrJS(f.neighborhood, f.name)

\* String(name ?? f.id ?? idx), idx counted from 0
FeatureKey(f, idx) == ToStringJS(CoalesceJS(FeatureName(f), CoalesceJS(f.id, Num(idx))))

\* the loop of raw.features.map: idMapRef.current[key] = idx for idx = from..
RECURSIVE BuildIdMap(_, _, _)
BuildIdMap(feats, idx, acc) ==
  IF idx >= Len(feats) THEN acc
  ELSE LET key == FeatureKey(feats[idx + 1], idx)
           upd == [k \in DOMAIN acc \cup {key} |-> IF k = key THEN idx ELSE acc[k]]
       IN BuildIdMap(feats, idx + 1, upd)

\* { ...f, id: idx }: the features handed to the "neigh" source
Reindexed(feats) == [i \in 1..Len(feats) |-> [feats[i] EXCEPT !.id = Num(i - 1)]]

\* ------------------------------------------------------ backend payloads
NeighborhoodIds == {Str("Mission"), Num(1)}
RiskValues == {Undefined, NaN, Num(-5), Num(137)}
ServedWeeks == {Undefined, Str(""), Str("2024-W09")}

\* a record of /api/predict carries mean_incidents, one of /api/spike carries prob
PredictionRecord(endpoint, n, r) ==
  [neighborhood_id |-> n, risk |-> r,
   prob |-> IF endpoint = "spike" THEN Frac(40) ELSE Undefined,
   mean_incidents |-> IF endpoint = "forecast" THEN Num(3) ELSE Undefined]

PredictionRecords(endpoint) ==
  { PredictionRecord(endpoint, n, r) : n \in NeighborhoodIds, r \in RiskValues }

\* the payloads of the paint runs: every array of at most MaxPreds records
PaintPayloadsOf(endpoint) ==
  { [predictions |-> Arr(s),
     served_week |-> IF endpoint = "spike" THEN Str("2024-W09") ELSE Undefined] :
      s \in SeqsUpTo(PredictionRecords(endpoint), MaxPreds) }

ForecastPaintPayloads == PaintPayloadsOf("forecast")
SpikePaintPayloads == PaintPayloadsOf("spike")
PaintPayloads(endpoint) ==
  IF endpoint = "spike" THEN SpikePaintPayloads ELSE ForecastPaintPayloads

\* the payloads of the synchronization runs: no predictions field, or one record
SyncPayloadsOf(endpoint) ==
  { [predictions |-> ps, served_week |-> sw] :
      ps \in { Undefined,
               Arr(<<PredictionRecord(endpoint, Str("Mission"), Num(80))>>),
               Arr(<<PredictionRecord(endpoint, Num(1), Num(137))>>) },
      sw \in ServedWeeks }

ForecastSyncPayloads == SyncPayloadsOf("forecast")
SpikeSyncPayloads == SyncPayloadsOf("spike")
SyncPayloads(endpoint) ==
  IF endpoint = "spike" THEN SpikeSyncPayloads ELSE ForecastSyncPayloads

\* the payloads of the hover runs: a record for "Mission"; one for the key "1";
\* one without neighborhood_id; one with a numeric string and one with a NaN risk
HoverPayloadsOf(endpoint) ==
  { [predictions |-> Arr(s),
     served_week |-> IF endpoint = "spike" THEN Str("2024-W09") ELSE Undefined] :
      s \in { <<PredictionRecord(endpoint, Str("Mission"), Num(62))>>,
              <<PredictionRecord(endpoint, Num(1), Num(137))>>,
              <<PredictionRecord(endpoint, Undefined, Num(80))>>,
              <<PredictionRecord(endpoint, Str("SoMa"), Str("62")),
                PredictionRecord(endpoint, Str("Mission"), NaN)>> } }

ForecastHoverPayloads == HoverPayloadsOf("forecast")
SpikeHoverPayloads == HoverPayloadsOf("spike")
HoverPayloads(endpoint) ==
  IF endpoint = "spike" THEN SpikeHoverPayloads ELSE ForecastHoverPayloads

\* the payloads of the index runs: one forecast record for a name or for an id
IndexPayloads ==
  { [predictions |-> Arr(<<PredictionRecord("forecast", n, Num(80))>>), served_week |-> Undefined] :
      n \in {Str("Mission"), Num(7)} }

RejectionMessages == {Undefined, Str("Network Error"), Str("Request failed with status code 500")}

\* variant: e?.message without the fallback text
ErrorTextNoFallback(message, fallback) == IF IsStr(message) THEN message[2] ELSE ""

\* e?.message || fallback
ErrorText(message, fallback) == IF Truthy(message) THEN message[2] ELSE fallback

MapOfUndefined == "Cannot read properties of undefined (reading 'map')"

\* ------------------------------------------------------------------ state
VARIABLES
  phase,        \* "loading": no "neigh" source yet; "ready": source added; "failed"
  raw,          \* features of the collection that getNeighborhoods() returned
  idMap,        \* idMapRef.current
  featureCount, \* featureCountRef.current
  featureState, \* feature-state store of the map, slot -> risk
  preds,        \* predsByNameRef.current
  requestId,    \* requestIdRef.current
  modeRef,      \* modeRef.current
  mode, date, crime, tod,
  err, loading, servedWeek,
  pending,      \* paintChoropleth invocations suspended at their await
  popup,        \* content of the hover popup, [shown |-> FALSE] when removed
  issued,       \* values that the local rid has taken
  accepted,     \* <<"some", lookup, currentMode, again>> of the last response that
                \* passed the rid test with a predictions array, again telling
                \* that the one before gave the same lookup; <<"none">> before
  delivered     \* outcome of the fetch of the invocation with the highest rid:
                \* <<"fulfilled", r, lookup of its predictions, its served_week>>,
                \* <<"malformed", r>>, <<"rejected", r>>, <<"pending">>, <<"none">>

vars == <<phase, raw, idMap, featureCount, featureState, preds, requestId,
          modeRef, mode, date, crime, tod, err, loading, servedWeek, pending,
          popup, issued, accepted, delivered>>

EmptyMap == [k \in {} |-> Undefined]

\* popup.remove() has run, or no popup was shown yet
HiddenPopup == [shown |-> FALSE]

Init ==
  /\ phase = "loading"
  /\ raw = <<>>
  /\ idMap = EmptyMap
  /\ featureCount = 0
  /\ featureState = EmptyMap
  /\ preds = EmptyMap
  /\ requestId = 0
  /\ modeRef = InitialMode
  /\ mode = InitialMode
  /\ date = InitialDate
  /\ crime = InitialCrime
  /\ tod = InitialTod
  /\ err = ""
  /\ loading = FALSE
  /\ servedWeek = Null
  /\ pending = {}
  /\ popup = HiddenPopup
  /\ issued = {}
  /\ accepted = <<"none">>
  /\ delivered = <<"none">>

\* ------------------------------------------------------- paintChoropleth
\* variant: requestIdRef.current++ (the value before the increment)
PostIncrement(n) == [ref |-> n + 1, value |-> n]

\* const rid = ++requestIdRef.current
PreIncrement(n) == [ref |-> n + 1, value |-> n + 1]

\* variant: no test of the source
HasSourceAlways == TRUE

\* m && m.getSource("neigh"): the source is added by onLoad, after the index
HasSource == phase = "ready"

\* variant: the entries of the new lookup are merged into the cache
MergeCache(old, byName) ==
  [k \in DOMAIN old \cup DOMAIN byName |-> IF k \in DOMAIN byName THEN byName[k] ELSE old[k]]

\* predsByNameRef.current = byName
ReplaceCache(old, byName) == byName

\* variant: no staleness test after the await
IsStaleNever(rid) == FALSE

\* rid !== requestIdRef.current after the await: the result is dropped
IsStale(rid) == rid # requestId

\* variants: the finally block clears always / never
FinallyClearsAlways(rid) == TRUE
FinallyClearsNever(rid) == FALSE

\* the guard of the finally block
FinallyClears(rid) == rid = requestId

\* variant: setServedWeek in both branches
SetsServedWeekAlways(currentMode) == TRUE

\* setServedWeek is called in the spike branch only
SetsServedWeek(currentMode) == currentMode = "spike"

\* the catch block calls setErr whatever the rid
CatchSetsErr(rid) == TRUE

\* new Map(predictions.map(p => [String(p.neighborhood_id), p])): entries are set
\* in array order, a later record replaces an earlier one with the same key
RECURSIVE MapFrom(_, _, _)
MapFrom(predictions, i, acc) ==
  IF i > Len(predictions) THEN acc
  ELSE LET key == ToStringJS(predictions[i].neighborhood_id)
       IN MapFrom(predictions, i + 1,
                  [k \in DOMAIN acc \cup {key} |-> IF k = key THEN predictions[i] ELSE acc[k]])

ByName(predictions) == MapFrom(predictions, 1, EmptyMap)

\* variant: no reset pass
ResetRiskSkipped(fs) == fs

\* for (let i = 0; i < featureCountRef.current; i++) setFeatureState(i, {risk: 0})
ResetRisk(fs) ==
  [i \in DOMAIN fs \cup 0..(featureCount - 1) |->
     IF i \in 0..(featureCount - 1) THEN Num(0) ELSE fs[i]]

\* variant: Number(p.risk) written without the Number.isFinite test
RiskOfUnchecked(byName, name) ==
  IF name \in DOMAIN byName THEN ToNumberJS(byName[name].risk) ELSE Num(0)

\* const risk = p ? Number(p.risk) : 0;  Number.isFinite(risk) ? risk : 0
RiskOf(byName, name) ==
  LET risk == IF name \in DOMAIN byName THEN ToNumberJS(byName[name].risk) ELSE Num(0)
  IN IF IsFiniteJS(risk) THEN risk ELSE Num(0)

\* variant: no apply pass
ApplyRiskSkipped(byName, fs) == fs

\* for (const [name, idx] of Object.entries(idMapRef.current)) setFeatureState(idx, ...):
\* every idx is the value of one name only, so the order of the entries is immaterial
ApplyRisk(byName, fs) ==
  [i \in DOMAIN fs \cup {idMap[name] : name \in DOMAIN idMap} |->
     IF \E name \in DOMAIN idMap : idMap[name] = i
     THEN RiskOf(byName, CHOOSE name \in DOMAIN idMap : idMap[name] = i)
     ELSE fs[i]]

\* variant: the new risk is added to the risk that the slot holds
RepaintAccumulating(byName) ==
  LET applied == ApplyRisk(byName, ResetRisk(featureState))
  IN [i \in DOMAIN applied |->
        IF i \in DOMAIN featureState /\ IsNum(featureState[i]) /\ IsNum(applied[i])
        THEN Num(featureState[i][2] + applied[i][2])
        ELSE applied[i]]

\* reset pass followed by apply pass
Repaint(byName) == ApplyRisk(byName, ResetRisk(featureState))

\* lines 165-170: guard, setLoading(true), setErr(""), setServedWeek(null), ++rid,
\* then the call of the fetcher matching currentMode, which suspends
PaintChoropleth(hasSource, currentMode, d, ct, time) ==
  IF ~hasSource
  THEN UNCHANGED <<loading, err, servedWeek, requestId, pending, issued, delivered>>
  ELSE LET inc == PreIncrement(requestId)
       IN /\ loading' = TRUE
          /\ err' = ""
          /\ servedWeek' = Null
          /\ requestId' = inc.ref
          /\ pending' = pending \cup
               {[rid |-> inc.value, currentMode |-> currentMode, d |-> d, ct |-> ct, time |-> time]}
          /\ issued' = issued \cup {inc.value}
          /\ delivered' = <<"pending">>

\* the arguments of the call at line 146: the closure of the effect with empty
\* dependencies holds the values of the first render
OnLoadArgs == [mode |-> InitialMode, date |-> InitialDate, crime |-> InitialCrime, tod |-> InitialTod]

\* ------------------------------------------------------------- operations
\* getNeighborhoods() resolved with raw: index, source, layers, initial paint
OnLoad(collection) ==
  /\ phase = "loading"
  /\ phase' = "ready"
  /\ raw' = collection
  /\ idMap' = BuildIdMap(collection, 0, idMap)
  /\ featureCount' = Len(Reindexed(collection))
  /\ featureState' = [i \in 0..(Len(collection) - 1) |-> Undefined]
  /\ PaintChoropleth(TRUE, OnLoadArgs.mode, OnLoadArgs.date, OnLoadArgs.crime, OnLoadArgs.tod)
  /\ UNCHANGED <<preds, modeRef, mode, date, crime, tod, popup, accepted>>

\* getNeighborhoods() rejected: the catch of onLoad
OnLoadFailed(message) ==
  /\ phase = "loading"
  /\ phase' = "failed"
  /\ err' = ErrorText(message, "Failed to load neighborhoods.")
  /\ UNCHANGED <<raw, idMap, featureCount, featureState, preds, requestId, modeRef,
                 mode, date, crime, tod, loading, servedWeek, pending, popup, issued,
                 accepted, delivered>>

\* the effect on [mode, date, crime, tod]
ControlsEffect(m2, d2, c2, t2) ==
  /\ (HasSource => requestId < MaxEpoch)
  /\ PaintChoropleth(HasSource, m2, d2, c2, t2)
  /\ UNCHANGED <<phase, raw, idMap, featureCount, featureState, preds, popup, accepted>>

SetMode(v) ==
  /\ v # mode
  /\ mode' = v
  /\ modeRef' = v
  /\ UNCHANGED <<date, crime, tod>>
  /\ ControlsEffect(v, date, crime, tod)

SetDate(v) ==
  /\ v # date
  /\ date' = v
  /\ UNCHANGED <<mode, modeRef, crime, tod>>
  /\ ControlsEffect(mode, v, crime, tod)

SetCrime(v) ==
  /\ v # crime
  /\ crime' = v
  /\ UNCHANGED <<mode, modeRef, date, tod>>
  /\ ControlsEffect(mode, date, v, tod)

SetTod(v) ==
  /\ v # tod
  /\ tod' = v
  /\ UNCHANGED <<mode, modeRef, date, crime>>
  /\ ControlsEffect(mode, date, crime, v)

\* the awaited fetch of invocation r is fulfilled with resp
FetchFulfilled(r, resp) ==
  LET byName == IF IsArr(resp.predictions) THEN ByName(resp.predictions[2]) ELSE EmptyMap
  IN
  /\ r \in pending
  /\ pending' = pending \ {r}
  /\ delivered' = IF r.rid # requestId THEN delivered
                  ELSE IF ~IsArr(resp.predictions) THEN <<"malformed", r>>
                  ELSE <<"fulfilled", r, byName, resp.served_week>>
  /\ accepted' = IF r.rid = requestId /\ IsArr(resp.predictions)
                 THEN <<"some", byName, r.currentMode,
                        accepted[1] = "some" /\ accepted[2] = byName>>
                 ELSE accepted
  /\ loading' = IF FinallyClears(r.rid) THEN FALSE ELSE loading
  /\ UNCHANGED <<phase, raw, idMap, featureCount, requestId, modeRef,
                 mode, date, crime, tod, popup, issued>>
  /\ IF IsStale(r.rid)
     THEN UNCHANGED <<preds, servedWeek, featureState, err>>
     ELSE IF ~IsArr(resp.predictions)
          THEN \* resp.predictions.map throws a TypeError, caught at line 209
               /\ err' = IF CatchSetsErr(r.rid) THEN MapOfUndefined ELSE err
               /\ UNCHANGED <<preds, servedWeek, featureState>>
          ELSE /\ preds' = ReplaceCache(preds, byName)
               /\ servedWeek' = IF SetsServedWeek(r.currentMode)
                                THEN OrJS(resp.served_week, Null)
                                ELSE servedWeek
               /\ featureState' = Repaint(byName)
               /\ UNCHANGED err

\* the awaited fetch of invocation r is rejected with an error carrying message
FetchRejected(r, message) ==
  /\ r \in pending
  /\ pending' = pending \ {r}
  /\ err' = IF CatchSetsErr(r.rid) THEN ErrorText(message, "Failed to load data.") ELSE err
  /\ loading' = IF FinallyClears(r.rid) THEN FALSE ELSE loading
  /\ delivered' = IF r.rid = requestId THEN <<"rejected", r>> ELSE delivered
  /\ UNCHANGED <<phase, raw, idMap, featureCount, featureState, preds, requestId,
                 modeRef, mode, date, crime, tod, servedWeek, popup, issued, accepted>>

\* mousemove over the fill of the feature with id i: the popup shows its name,
\* its risk and the detail of the mode that modeRef holds
Hover(i) ==
  /\ phase = "ready"
  /\ i \in 0..(Len(raw) - 1)
  /\ LET f == Reindexed(raw)[i + 1]
         name == FeatureName(f)
         state == featureState[f.id[2]]
         key == ToStringJS(name)
         found == key \in DOMAIN preds
         risk == CoalesceJS(state, Num(0))
         currentMode == modeRef
     IN popup' =
          [shown |-> TRUE,
           slot |-> f.id[2],
           title |-> ToStringJS(CoalesceJS(name, Str("?"))),
           risk |-> ToFixed(ToNumberJS(risk), 1),
           label |-> IF currentMode = "forecast" THEN "Mean incidents" ELSE "Spike probability",
           detail |-> IF currentMode = "forecast"
                      THEN ToFixed(ToNumberJS(IF found THEN preds[key].mean_incidents ELSE Num(0)), 2)
                      ELSE IF found THEN ToFixed(TimesHundred(ToNumberJS(preds[key].prob)), 1)
                           ELSE ToFixed(ToNumberJS(risk), 1)]
  /\ popup' # popup
  /\ UNCHANGED <<phase, raw, idMap, featureCount, featureState, preds, requestId,
                 modeRef, mode, date, crime, tod, err, loading, servedWeek, pending,
                 issued, accepted, delivered>>

\* mouseleave of the fill layer
MouseLeave ==
  /\ popup.shown
  /\ popup' = HiddenPopup
  /\ UNCHANGED <<phase, raw, idMap, featureCount, featureState, preds, requestId,
                 modeRef, mode, date, crime, tod, err, loading, servedWeek, pending,
                 issued, accepted, delivered>>

\* runs of the synchronization: load, every control, every outcome of a fetch;
\* the pointer stays off the map
Next ==
  \/ \E collection \in SyncCollections : OnLoad(collection)
  \/ \E message \in RejectionMessages : OnLoadFailed(message)
  \/ \E v \in Modes : SetMode(v)
  \/ \E v \in Dates : SetDate(v)
  \/ \E v \in Crimes : SetCrime(v)
  \/ \E v \in Tods : SetTod(v)
  \/ \E r \in pending : \E resp \in SyncPayloads(r.currentMode) : FetchFulfilled(r, resp)
  \/ \E r \in pending : \E message \in RejectionMessages : FetchRejected(r, message)

Spec == Init /\ [][Next]_vars

\* runs in which the user only switches the mode, and only while no fetch is in
\* flight; the region collection and the payloads range over all bounded inputs
SetModeIdle(v) == pending = {} /\ SetMode(v)

NextPaint ==
  \/ \E collection \in FeatureCollections : OnLoad(collection)
  \/ \E v \in Modes : SetModeIdle(v)
  \/ \E r \in pending : \E resp \in PaintPayloads(r.currentMode) : FetchFulfilled(r, resp)

SpecPaint == Init /\ [][NextPaint]_vars

\* every fetch settles: the promise of an issued request is fulfilled or rejected
Resolve ==
  \E r \in pending :
    \/ \E resp \in SyncPayloads(r.currentMode) : FetchFulfilled(r, resp)
    \/ \E message \in RejectionMessages : FetchRejected(r, message)

SpecLive == Init /\ [][Next]_vars /\ WF_vars(Resolve)

\* runs that load any bounded region collection and paint the first response
NextIndex ==
  \/ phase = "loading" /\ \E collection \in IndexCollections : OnLoad(collection)
  \/ \E r \in pending : \E resp \in IndexPayloads : FetchFulfilled(r, resp)

SpecIndex == Init /\ [][NextIndex]_vars

\* runs with the pointer over the regions while mode and date change
NextHover ==
  \/ \E collection \in HoverCollections : OnLoad(collection)
  \/ \E v \in Modes : SetMode(v)
  \/ \E v \in Dates : SetDate(v)
  \/ \E r \in pending : \E resp \in HoverPayloads(r.currentMode) : FetchFulfilled(r, resp)
  \/ \E r \in pending : FetchRejected(r, Str("Network Error"))
  \/ \E i \in 0..(featureCount - 1) : Hover(i)
  \/ MouseLeave

SpecHover == Init /\ [][NextHover]_vars

\* ================================================================ claims
\* key of the region at slot i, as derived when the index was built
SlotKey(i) == FeatureKey(raw[i + 1], i)

Slots == 0..(featureCount - 1)

\* the invocation holding the highest rid received a payload with predictions
LatestAccepted == delivered[1] = "fulfilled"

\* the steps that resolve the fetch of invocation r
StaleFulfilment(r) ==
  /\ r.rid # requestId
  /\ \E resp \in SyncPayloads(r.currentMode) : FetchFulfilled(r, resp)

StaleRejection(r) ==
  /\ r.rid # requestId
  /\ \E message \in RejectionMessages : FetchRejected(r, message)

CurrentFailure(r) ==
  /\ r.rid = requestId
  /\ \/ \E message \in RejectionMessages : FetchRejected(r, message)
     \/ \E resp \in SyncPayloads(r.currentMode) :
          ~IsArr(resp.predictions) /\ FetchFulfilled(r, resp)

\* C1: issuance-order-wins. Once the fetch of the most recently issued attempt
\* has been fulfilled, the Prediction Cache and the rendered risk of every slot
\* are those of its response alone, whatever older attempts resolve afterwards.
IssuanceOrderWins ==
  LatestAccepted =>
    LET byName == delivered[3]
    IN /\ preds = byName
       /\ \A i \in Slots :
            featureState[i] =
              IF \E k \in DOMAIN idMap : idMap[k] = i
              THEN RiskOf(byName, CHOOSE k \in DOMAIN idMap : idMap[k] = i)
              ELSE Num(0)

\* the newest attempt has been accepted while an older one is still in flight
IssuanceOrderWinsWitness ==
  /\ LatestAccepted
  /\ delivered[2].rid >= 2
  /\ \E r \in pending : r.rid < delivered[2].rid
  /\ \E i \in Slots : featureState[i] # Num(0)

\* C2: a fulfilled fetch whose epoch is no longer current changes neither the
\* rendered risk, the Prediction Cache, Served Week, the error message nor the
\* loading indicator.
StaleSuccessDiscarded ==
  [][\A r \in pending :
       StaleFulfilment(r) => UNCHANGED <<featureState, preds, servedWeek, err, loading>>]_vars

\* a superseded attempt is in flight while a newer response is on display
StaleSuccessDiscardedWitness ==
  /\ LatestAccepted
  /\ servedWeek # Null
  /\ \E r \in pending : r.rid # requestId

\* C3 (as claimed): a rejection of a superseded fetch leaves the error message
\* unchanged.
SupersededFailureSuppressed ==
  [][\A r \in pending : StaleRejection(r) => err' = err]_vars

\* C4: a failure of the current epoch's fetch (rejection, or a payload without
\* predictions) surfaces a message and leaves the Prediction Cache and the
\* rendered risk of every slot as they were.
CurrentFailureKeepsPaint ==
  [][\A r \in pending :
       CurrentFailure(r) => /\ err' # ""
                            /\ UNCHANGED <<preds, featureState>>]_vars

\* the current fetch failed after an earlier response had been painted
CurrentFailureKeepsPaintWitness ==
  /\ delivered[1] \in {"rejected", "malformed"}
  /\ err # ""
  /\ DOMAIN preds # {}
  /\ \E i \in Slots : featureState[i] \notin {Undefined, Num(0)}

\* C5: completeness of reset. After an accepted response, every slot whose
\* region key has no record in that response renders risk 0.
CompletenessOfReset ==
  LatestAccepted =>
    \A i \in Slots :
      SlotKey(i) \notin DOMAIN delivered[3] => featureState[i] = Num(0)

\* a second or later accepted response lacks the key of a slot, other slot painted
CompletenessOfResetWitness ==
  /\ LatestAccepted
  /\ delivered[2].rid >= 2
  /\ \E i, j \in Slots :
       /\ SlotKey(i) \notin DOMAIN delivered[3]
       /\ featureState[i] = Num(0)
       /\ featureState[j] = Num(137)

\* C6 (as claimed): the attempt holding the current epoch was started with the
\* mode, date, category and time of day the controls show.
AttemptUsesCurrentParameters ==
  \A r \in pending :
    r.rid = requestId =>
      /\ r.currentMode = mode
      /\ r.d = date
      /\ r.ct = crime
      /\ r.time = tod

\* C7: epochs are 1, 2, 3, ... each issued once; the current epoch is the
\* highest issued, so every older unresolved attempt is stale.
EpochInvariant ==
  /\ issued = 1..requestId
  /\ \A r \in pending : r.rid \in issued
  /\ \A r1, r2 \in pending : r1.rid = r2.rid => r1 = r2
  /\ \A e \in issued : ~IsStale(e) <=> (\A f \in issued : f <= e)

EpochStep ==
  \A r \in pending' \ pending :
    /\ r.rid \notin issued
    /\ \A e \in issued : e < r.rid
    /\ r.rid = requestId'
    /\ \A q \in pending : q.rid # requestId'

\* C7: the epoch invariant holds in every state and every issue of an epoch
\* takes a fresh value above all earlier ones, which becomes the current one.
EpochDiscipline == []EpochInvariant /\ [][EpochStep]_vars

\* the last epoch has been issued while two older attempts are unresolved
EpochDisciplineWitness ==
  /\ requestId >= 3
  /\ Cardinality(pending) >= 3

\* C8: a resolving fetch clears the loading indicator iff its epoch is current;
\* the indicator is true while the current epoch's fetch is in flight.
LoadingOwnedByCurrent ==
  /\ [](\A r \in pending : r.rid = requestId => loading = TRUE)
  /\ [][\A r \in pending :
          r \notin pending' => loading' = (IF r.rid = requestId THEN FALSE ELSE loading)]_vars

\* a superseded fetch has failed while the current one is in flight
LoadingOwnedByCurrentWitness ==
  /\ \E r \in pending : r.rid = requestId
  /\ err # ""
  /\ loading = TRUE

\* C9 (as claimed): a NaN, negative or missing risk renders 0, a risk above 100
\* is written unchanged.
ClampingAsClaimed ==
  \A k \in DOMAIN idMap \cap DOMAIN preds :
    LET r == preds[k].risk
    IN /\ (r = NaN \/ r = Undefined \/ (IsNum(r) /\ r[2] < 0)) => featureState[idMap[k]] = Num(0)
       /\ (IsNum(r) /\ r[2] > 100) => featureState[idMap[k]] = r

\* C9 (amended): a NaN or missing risk renders 0; every finite risk, negative
\* or above 100, is written unchanged.
ClampToFinite ==
  \A k \in DOMAIN idMap \cap DOMAIN preds :
    LET r == preds[k].risk
    IN /\ (r = NaN \/ r = Undefined) => featureState[idMap[k]] = Num(0)
       /\ IsNum(r) => featureState[idMap[k]] = r

\* one response with a negative risk and a NaN risk for two indexed regions
ClampToFiniteWitness ==
  \E k1, k2 \in DOMAIN idMap \cap DOMAIN preds :
    /\ preds[k1].risk = Num(-5)
    /\ featureState[idMap[k1]] = Num(-5)
    /\ preds[k2].risk = NaN
    /\ featureState[idMap[k2]] = Num(0)

\* C10: Served Week is reset by every start of an attempt and is non-null only
\* as the served_week of the accepted spike response of the current epoch.
ServedWeekInvariant ==
  servedWeek # Null =>
    /\ LatestAccepted
    /\ delivered[2].currentMode = "spike"
    /\ servedWeek = delivered[4]

\* C10: the Served Week invariant holds in every state and every step that
\* issues an epoch leaves Served Week null.
ServedWeekLifecycle ==
  /\ []ServedWeekInvariant
  /\ [][requestId' # requestId => servedWeek' = Null]_vars

\* a spike response of a later epoch has set Served Week
ServedWeekLifecycleWitness ==
  /\ servedWeek = Str("2024-W09")
  /\ requestId >= 2
  /\ pending # {}

\* the regions, by position, that share the key of the region at position i
SameKey(i) == { j \in Slots : SlotKey(j) = SlotKey(i) }

\* C11 (as claimed): the Region Index is a bijection between the regions and
\* the slots 0 .. count-1: one entry per region, mapping its key to its slot.
IndexIsBijection ==
  phase = "ready" =>
    /\ featureCount = Len(raw)
    /\ Cardinality(DOMAIN idMap) = Len(raw)
    /\ { idMap[k] : k \in DOMAIN idMap } = 0..(Len(raw) - 1)
    /\ \A i \in Slots : SlotKey(i) \in DOMAIN idMap /\ idMap[SlotKey(i)] = i

\* C16 (as claimed): a key shared by two regions maps to the later region's
\* slot, and after an accepted response the earlier region's slot renders the
\* same risk as the later region's slot.
DuplicateKeyShared ==
  \A i \in Slots :
    /\ idMap[SlotKey(i)] \in SameKey(i)
    /\ \A j \in SameKey(i) : j <= idMap[SlotKey(i)]
    /\ LatestAccepted => featureState[i] = featureState[idMap[SlotKey(i)]]

\* the key that the fallback rule gives the region f at position idx
FallbackKey(f, idx) ==
  IF ~IsNullish(FeatureName(f)) THEN ToStringJS(FeatureName(f))
  ELSE IF ~IsNullish(f.id) THEN ToStringJS(f.id)
  ELSE DecimalString(idx)

\* C17: every region is indexed under the string form of its name if it has
\* one, else of its id if it has one, else of its position; the feature handed
\* to the source has its position as id, and the index maps the key to the
\* position of the last region with that key. Ten nameless regions with id 7
\* at position 7 give key "7" and slot 7.
KeyFallback ==
  phase = "ready" =>
    /\ featureCount = Len(raw)
    /\ \A i \in 0..(Len(raw) - 1) :
         LET key == FallbackKey(raw[i + 1], i)
         IN /\ key \in DOMAIN idMap
            /\ idMap[key] >= i
            /\ FallbackKey(raw[idMap[key] + 1], idMap[key]) = key
            /\ (\A j \in (i + 1)..(Len(raw) - 1) : FallbackKey(raw[j + 1], j) # key)
                  => idMap[key] = i
            /\ Reindexed(raw)[i + 1].id = Num(i)
    /\ \A k \in DOMAIN idMap : \E i \in 0..(Len(raw) - 1) : FallbackKey(raw[i + 1], i) = k
    /\ raw = TenRegions => idMap["7"] = 7 /\ Cardinality(DOMAIN idMap) = 10

\* the ten-region example is indexed and painted
KeyFallbackWitness ==
  /\ raw = TenRegions
  /\ idMap["7"] = 7
  /\ raw[8].id = Num(7)
  /\ featureState[7] = Num(80)

\* C12: the Prediction Cache is exactly the lookup built from the last accepted
\* response (empty before the first): nothing of an earlier response remains,
\* whatever was issued, superseded or failed since.
CacheIsLastAccepted ==
  preds = IF accepted[1] = "some" THEN accepted[2] ELSE EmptyMap

\* two responses with different keys were accepted, then the current fetch failed
CacheIsLastAcceptedWitness ==
  /\ accepted[1] = "some"
  /\ delivered[1] = "rejected"
  /\ requestId >= 3
  /\ DOMAIN preds = {"1"}
  /\ featureState[0] = Num(0)

\* C13: after an accepted response, every slot that the Region Index gives a
\* key with a record in the response renders that record's risk as a number,
\* 0 when it is not finite. Regions Mission and SoMa with a spike response
\* holding one Mission record of risk 62 give slot 0 = 62, slot 1 = 0, Served
\* Week "2024-W09" and a cache of one entry keyed "Mission".
ApplyPass ==
  LatestAccepted =>
    /\ \A k \in DOMAIN idMap \cap DOMAIN delivered[3] :
         LET r == ToNumberJS(delivered[3][k].risk)
         IN featureState[idMap[k]] = IF IsFiniteJS(r) THEN r ELSE Num(0)
    /\ ( /\ raw = <<NamedFeature, SoMaFeature>>
         /\ delivered[2].currentMode = "spike"
         /\ delivered[3] = ByName(<<PredictionRecord("spike", Str("Mission"), Num(62))>>) )
       => /\ featureState[0] = Num(62)
          /\ featureState[1] = Num(0)
          /\ servedWeek = Str("2024-W09")
          /\ DOMAIN preds = {"Mission"}
          /\ preds["Mission"].prob = Frac(40)

\* the spike response of the example was accepted for Mission and SoMa
ApplyPassWitness ==
  /\ LatestAccepted
  /\ raw = <<NamedFeature, SoMaFeature>>
  /\ delivered[2].currentMode = "spike"
  /\ featureState = (0 :> Num(62) @@ 1 :> Num(0))
  /\ servedWeek = Str("2024-W09")
  /\ Cardinality(DOMAIN preds) = 1

\* C14: accepting a response whose lookup equals that of the response accepted
\* just before leaves the rendered risk of every slot as it was.
IdempotentRepaint ==
  [][( /\ delivered[1] = "pending"
       /\ delivered'[1] = "fulfilled"
       /\ accepted[1] = "some"
       /\ delivered'[3] = accepted[2] )
     => featureState' = featureState]_vars

\* the same response was accepted twice in a row and painted a slot
IdempotentRepaintWitness ==
  /\ LatestAccepted
  /\ accepted[1] = "some"
  /\ accepted[4]
  /\ \E i \in Slots : featureState[i] \notin {Num(0), Undefined}

\* the key under which the popup looks up the region at slot i
HoverKey(i) == ToStringJS(FeatureName(raw[i + 1]))

\* C15 (as claimed): a hover over a region whose key has no entry in the
\* Prediction Cache shows risk 0 and mean incidents 0 or probability 0.
MissingEntryShowsZeros ==
  [][\A i \in Slots :
       (Hover(i) /\ SlotKey(i) \notin DOMAIN preds)
         => /\ popup'.risk = "0.0"
            /\ popup'.detail = IF popup'.label = "Mean incidents" THEN "0.00" ELSE "0.0"]_vars

\* C18 (as claimed): a hover that formats the cache entry of the hovered region
\* formats it for the mode of the accepted response that produced the cache, so
\* no field of the other mode is read.
PopupModeMatchesCache ==
  [][\A i \in Slots :
       (Hover(i) /\ HoverKey(i) = SlotKey(i) /\ HoverKey(i) \in DOMAIN preds)
         => /\ accepted[1] = "some"
            /\ (popup'.label = "Mean incidents") = (accepted[3] = "forecast")
            /\ popup'.detail # "NaN"]_vars

\* the fetch of the most recently issued epoch has not resolved
CurrentUnresolved == \E r \in pending : r.rid = requestId

\* C19: the loading indicator is true exactly while the fetch of the most
\* recently issued epoch is unresolved; once the changes of parameters have
\* stopped and every fetch resolves, it becomes false and stays false.
LoadingLiveness ==
  /\ [](loading = CurrentUnresolved)
  /\ <>[](loading = FALSE)

\* the newest fetch has resolved while a superseded one is still in flight
LoadingLivenessWitness ==
  /\ loading = FALSE
  /\ requestId >= 2
  /\ pending # {}
  /\ ~CurrentUnresolved

\* C20: an epoch is issued and a fetch started only once the index holds every
\* region and the source exists; a change of parameters before that changes
\* neither the epoch counter nor loading, error, Served Week or the fetches in
\* flight; every accepted response found the index complete.
IndexBeforeFirstEpoch ==
  /\ []((requestId > 0 \/ pending # {} \/ accepted[1] = "some")
          => /\ HasSource
             /\ featureCount = Len(raw)
             /\ Len(raw) > 0
             /\ \A i \in 0..(Len(raw) - 1) : SlotKey(i) \in DOMAIN idMap
             /\ DOMAIN featureState = 0..(Len(raw) - 1))
  /\ [][(~HasSource /\ <<mode, date, crime, tod>>' # <<mode, date, crime, tod>>)
          => UNCHANGED <<requestId, loading, err, servedWeek, pending, issued>>]_vars

\* the date was changed before the regions arrived; the response of the only
\* epoch, issued at load completion, has been accepted
IndexBeforeFirstEpochWitness ==
  /\ date # InitialDate
  /\ requestId = 1
  /\ accepted[1] = "some"
  /\ \E i \in Slots : featureState[i] = Num(80)

====
